---- MODULE Spec2Model ----
(***************************************************************************)
(* VeriFund off-chain ledger: the JSON file store (api/lib/storage.ts) and *)
(* the request handlers /api/users, /api/donations and /api/fifo.          *)
(*                                                                         *)
(* Amounts are kept as the strings the store keeps; parseFloat and         *)
(* Number.toString are modelled on whole numbers of the base unit.         *)
(***************************************************************************)
EXTENDS Integers, Sequences, FiniteSets, TLC

\* ------------------------------------------------------------------ bounds
MaxDonations == 2        \* donation records the environment records
MaxReimbursements == 1   \* reimbursement records the environment submits
MaxClock == 1            \* last millisecond tick of the wall clock
MaxNum == 30             \* magnitude of the numbers parseFloat/toString cover

\* ------------------------------------------------- environment (requests)
LedgerEmails == {"a@x.io"}
LedgerWallets == {"0xaa"}
DonationWallets == {"0xaa"}
TxHashes == {"0xt1", "0xt2"}
FifoTxHashes == {"0xr1"}
BlockNumbers == {1}
DonationAmounts == {"0", "3", "5"}
FifoAmounts == {"abc", "1", "7"}
PreviewAmounts == {"7"}
InvoiceTexts == {"inv"}
QueryFilters == {"A@x.io"}
Workers == {1, 2}
ConcAmounts == {"1", "4"}
ConcDonationAmounts == {"3", "5"}
UserEmails == {"a@x.io", "A@x.io", "b@x.io"}
UserWallets == {"0xaa", "0xAA", "0xbb"}
UserDonationWallets == {"0xAA", "0xbb"}
UserDonationAmounts == {"3"}
UserTxHashes == {"0xt1"}
InputDonationAmounts == {"", "abc", "0", "-1", "3"}
InputFifoAmounts == {"", "abc", "0", "-1", "7"}
ResubmitDonationAmounts == {"5"}
ResubmitFifoAmounts == {"1", "4", "5"}
QueryEmails == {"a@x.io", "b@x.io"}
QueryWallets == {"0xaa", "0xbb"}
AllFilters == {"", "A@x.io", "b@x.io"}
PercentDonationAmounts == {"2", "3", "10"}
PercentFifoAmounts == {"4"}
StepWorkers == {1}
ReRegisterEmails == {"a@x.io", "A@x.io", "b@x.io"}

\* ------------------------------------------------------------ conversions
\* String.prototype.toLowerCase on the strings the environment uses
ToLowerCase(s) ==
  CASE s = "A@x.io" -> "a@x.io"
    [] s = "B@x.io" -> "b@x.io"
    [] s = "0xAA" -> "0xaa"
    [] s = "0xBB" -> "0xbb"
    [] OTHER -> s

\* Number.prototype.toString
NumToString(n) == ToString(n)

NumTable == [s \in {NumToString(n) : n \in (0 - MaxNum)..MaxNum} |->
               CHOOSE n \in (0 - MaxNum)..MaxNum : NumToString(n) = s]

\* isNaN(parseFloat(s))
IsNaNStr(s) == s \notin DOMAIN NumTable

\* parseFloat(s), for a string that parses
ParseFloat(s) == NumTable[s]

Min(a, b) == IF a <= b THEN a ELSE b

\* ------------------------------------------------------------------ state
VARIABLES users, donations, reimbursements, clock, spent, last, procs, base

vars == <<users, donations, reimbursements, clock, spent, last, procs, base>>

\* ----------------------------------------------------------------- users
\* mutant: the first user is taken whatever the wallet
FindUserByWallet_FirstUser(us, w, k) == IF us = <<>> THEN 0 ELSE 1

\* users.find(u => u.walletAddress.toLowerCase() === walletAddress.toLowerCase())
RECURSIVE FindUserByWallet(_, _, _)
FindUserByWallet(us, w, k) ==
  IF k > Len(us) THEN 0
  ELSE IF ToLowerCase(us[k].walletAddress) = ToLowerCase(w) THEN k
  ELSE FindUserByWallet(us, w, k + 1)

getUserByWallet(us, w) == FindUserByWallet(us, w, 1)

\* mutant: the emails are compared as written
RECURSIVE FindUserByEmail_Exact(_, _, _)
FindUserByEmail_Exact(us, e, k) ==
  IF k > Len(us) THEN 0
  ELSE IF us[k].email = e THEN k
  ELSE FindUserByEmail_Exact(us, e, k + 1)

\* users.findIndex(u => u.email.toLowerCase() === email.toLowerCase())
RECURSIVE FindUserByEmail(_, _, _)
FindUserByEmail(us, e, k) ==
  IF k > Len(us) THEN 0
  ELSE IF ToLowerCase(us[k].email) = ToLowerCase(e) THEN k
  ELSE FindUserByEmail(us, e, k + 1)

createOrUpdateUser(us, email, walletAddress, now) ==
  LET existingIndex == FindUserByEmail(us, email, 1)
      user == [email |-> email, walletAddress |-> walletAddress,
               createdAt |-> IF existingIndex > 0 THEN us[existingIndex].createdAt
                             ELSE now]
  IN IF existingIndex > 0 THEN [us EXCEPT ![existingIndex] = user]
     ELSE Append(us, user)

\* ------------------------------------------------------------- donations
DonationId(txHash, blockNumber) == <<txHash, blockNumber>>

createDonation(ds, email, walletAddress, amount, txHash, blockNumber, now) ==
  Append(ds, [id |-> DonationId(txHash, blockNumber),
              email |-> email,
              walletAddress |-> walletAddress,
              amount |-> amount,
              txHash |-> txHash,
              blockNumber |-> blockNumber,
              timestamp |-> now,
              remaining |-> amount])

\* donations.findIndex(d => d.id === donationId); 0 when there is none
RECURSIVE FindDonation(_, _, _)
FindDonation(ds, id, k) ==
  IF k > Len(ds) THEN 0
  ELSE IF ds[k].id = id THEN k
  ELSE FindDonation(ds, id, k + 1)

\* mutant: a donation that is fully spent is removed from the collection
updateDonationRemaining_DropsSpent(ds, donationId, remaining) ==
  LET index == FindDonation(ds, donationId, 1)
  IN IF index > 0
     THEN IF remaining = "0"
          THEN SubSeq(ds, 1, index - 1) \o SubSeq(ds, index + 1, Len(ds))
          ELSE [ds EXCEPT ![index].remaining = remaining]
     ELSE ds

updateDonationRemaining(ds, donationId, remaining) ==
  LET index == FindDonation(ds, donationId, 1)
  IN IF index > 0 THEN [ds EXCEPT ![index].remaining = remaining] ELSE ds

\* -------------------------------------------------------- reimbursements
createReimbursement(rs, amount, txHash, blockNumber, invoiceData, now) ==
  Append(rs, [id |-> DonationId(txHash, blockNumber),
              amount |-> amount,
              txHash |-> txHash,
              blockNumber |-> blockNumber,
              timestamp |-> now,
              invoiceData |-> invoiceData])

\* ------------------------------------------------------------------ FIFO
\* mutant: the comparator reversed (newest first)
CompareTimestamp_Reversed(a, b) == b.timestamp - a.timestamp

\* the comparator of the sort: a.timestamp - b.timestamp
CompareTimestamp(a, b) == a.timestamp - b.timestamp

\* mutant: an unstable sort, which puts k before the elements it ties with
RECURSIVE InsertSorted_Unstable(_, _, _)
InsertSorted_Unstable(ds, order, k) ==
  IF order = <<>> THEN <<k>>
  ELSE IF CompareTimestamp(ds[Head(order)], ds[k]) < 0
       THEN <<Head(order)>> \o InsertSorted_Unstable(ds, Tail(order), k)
       ELSE <<k>> \o order

\* Array.prototype.sort is stable: insert position k after every earlier
\* element that does not compare greater
RECURSIVE InsertSorted(_, _, _)
InsertSorted(ds, order, k) ==
  IF order = <<>> THEN <<k>>
  ELSE IF CompareTimestamp(ds[Head(order)], ds[k]) <= 0
       THEN <<Head(order)>> \o InsertSorted(ds, Tail(order), k)
       ELSE <<k>> \o order

\* [...donations].sort(...), as the positions of the records in `donations`
RECURSIVE SortedUpTo(_, _)
SortedUpTo(ds, n) ==
  IF n = 0 THEN <<>> ELSE InsertSorted(ds, SortedUpTo(ds, n - 1), n)

sortedDonations(ds) == SortedUpTo(ds, Len(ds))

\* mutant: remainingReimbursement is not reduced by what was drawn
RECURSIVE FIFOLoop_KeepsReimbursement(_, _, _, _)
FIFOLoop_KeepsReimbursement(ds, order, k, rr) ==
  IF k > Len(order) THEN <<>>
  ELSE LET donation == ds[order[k]]
           donationRemaining == ParseFloat(donation.remaining)
       IN IF donationRemaining <= 0
          THEN FIFOLoop_KeepsReimbursement(ds, order, k + 1, rr)
          ELSE IF rr <= 0 THEN <<>>
          ELSE LET amountFromThisDonation == Min(donationRemaining, rr)
               IN <<[email |-> donation.email,
                     walletAddress |-> donation.walletAddress,
                     amountSpent |-> NumToString(amountFromThisDonation),
                     donationId |-> donation.id,
                     originalAmount |-> donation.amount,
                     percentageSpent |->
                       [num |-> amountFromThisDonation * 100,
                        den |-> ParseFloat(donation.amount)],
                     rec |-> order[k]]>>
                  \o FIFOLoop_KeepsReimbursement(ds, order, k + 1, rr)

\* mutant: the percentage is taken of what the donation still had
RECURSIVE FIFOLoop_PercentOfRemaining(_, _, _, _)
FIFOLoop_PercentOfRemaining(ds, order, k, rr) ==
  IF k > Len(order) THEN <<>>
  ELSE LET donation == ds[order[k]]
           donationRemaining == ParseFloat(donation.remaining)
       IN IF donationRemaining <= 0
          THEN FIFOLoop_PercentOfRemaining(ds, order, k + 1, rr)
          ELSE IF rr <= 0 THEN <<>>
          ELSE LET amountFromThisDonation == Min(donationRemaining, rr)
               IN <<[email |-> donation.email,
                     walletAddress |-> donation.walletAddress,
                     amountSpent |-> NumToString(amountFromThisDonation),
                     donationId |-> donation.id,
                     originalAmount |-> donation.amount,
                     percentageSpent |->
                       [num |-> amountFromThisDonation * 100,
                        den |-> donationRemaining],
                     rec |-> order[k]]>>
                  \o FIFOLoop_PercentOfRemaining(ds, order, k + 1,
                                                 rr - amountFromThisDonation)

\* mutant: only a donation with negative remaining is skipped
RECURSIVE FIFOLoop_TakesSpent(_, _, _, _)
FIFOLoop_TakesSpent(ds, order, k, rr) ==
  IF k > Len(order) THEN <<>>
  ELSE LET donation == ds[order[k]]
           donationRemaining == ParseFloat(donation.remaining)
       IN IF donationRemaining < 0
          THEN FIFOLoop_TakesSpent(ds, order, k + 1, rr)
          ELSE IF rr <= 0 THEN <<>>
          ELSE LET amountFromThisDonation == Min(donationRemaining, rr)
               IN <<[email |-> donation.email,
                     walletAddress |-> donation.walletAddress,
                     amountSpent |-> NumToString(amountFromThisDonation),
                     donationId |-> donation.id,
                     originalAmount |-> donation.amount,
                     percentageSpent |->
                       [num |-> amountFromThisDonation * 100,
                        den |-> ParseFloat(donation.amount)],
                     rec |-> order[k]]>>
                  \o FIFOLoop_TakesSpent(ds, order, k + 1,
                                         rr - amountFromThisDonation)

\* the loop of calculateFIFONotifications from position k of the sorted list
\* with remainingReimbursement = rr.  `rec` is the position of the donation
\* record in the stored collection (history field, not in the source).
RECURSIVE FIFOLoop(_, _, _, _)
FIFOLoop(ds, order, k, rr) ==
  IF k > Len(order) THEN <<>>
  ELSE LET donation == ds[order[k]]
           donationRemaining == ParseFloat(donation.remaining)
       IN IF donationRemaining <= 0 THEN FIFOLoop(ds, order, k + 1, rr)
          ELSE IF rr <= 0 THEN <<>>
          ELSE LET amountFromThisDonation == Min(donationRemaining, rr)
               IN <<[email |-> donation.email,
                     walletAddress |-> donation.walletAddress,
                     amountSpent |-> NumToString(amountFromThisDonation),
                     donationId |-> donation.id,
                     originalAmount |-> donation.amount,
                     percentageSpent |->
                       [num |-> amountFromThisDonation * 100,
                        den |-> ParseFloat(donation.amount)],
                     rec |-> order[k]]>>
                  \o FIFOLoop(ds, order, k + 1, rr - amountFromThisDonation)

calculateFIFONotifications(ds, reimbursementAmount) ==
  FIFOLoop(ds, sortedDonations(ds), 1, ParseFloat(reimbursementAmount))

\* mutant: the amount spent is added to the remaining
ApplyNotification_Adds(ds, notification) ==
  LET i == FindDonation(ds, notification.donationId, 1)
  IN IF i > 0
     THEN updateDonationRemaining(ds, ds[i].id,
            NumToString(ParseFloat(ds[i].remaining)
                        + ParseFloat(notification.amountSpent)))
     ELSE ds

\* one pass of the update loop of processReimbursement
ApplyNotification(ds, notification) ==
  LET i == FindDonation(ds, notification.donationId, 1)
  IN IF i > 0
     THEN updateDonationRemaining(ds, ds[i].id,
            NumToString(ParseFloat(ds[i].remaining)
                        - ParseFloat(notification.amountSpent)))
     ELSE ds

RECURSIVE ApplyNotifications(_, _)
ApplyNotifications(ds, notifications) ==
  IF notifications = <<>> THEN ds
  ELSE ApplyNotifications(ApplyNotification(ds, Head(notifications)),
                          Tail(notifications))

\* the donations collection after processReimbursement(reimbursementAmount)
processReimbursement(ds, reimbursementAmount) ==
  ApplyNotifications(ds, calculateFIFONotifications(ds, reimbursementAmount))

\* ------------------------------------------------------ history helpers
RECURSIVE SumSpentFor(_, _)
SumSpentFor(notifications, i) ==
  IF notifications = <<>> THEN 0
  ELSE (IF Head(notifications).rec = i
        THEN ParseFloat(Head(notifications).amountSpent) ELSE 0)
       + SumSpentFor(Tail(notifications), i)

\* what the last request was and returned: `pre` is the donations collection
\* when it arrived (the users collection for a registration), `key` the
\* identifier a recorded donation was given, `email` and `wallet` the
\* request's fields, `fault` what went wrong in the store while it ran
Outcome(op, status, amount, pre, result) ==
  [op |-> op, status |-> status, amount |-> amount, pre |-> pre,
   result |-> result, rows |-> <<>>, key |-> <<>>, email |-> "",
   wallet |-> "", fault |-> ""]

\* a processReimbursement invocation of its own process: where it is
\* (pc), its argument and its local variables
IdleProc == [pc |-> "idle", amount |-> "", notifications |-> <<>>, k |-> 0,
             target |-> <<>>, newRemaining |-> "", buf |-> <<>>, index |-> 0]

\* ------------------------------------------------------------------ Init
Init ==
  /\ users = <<>>
  /\ donations = <<>>
  /\ reimbursements = <<>>
  /\ clock = 0
  /\ spent = <<>>
  /\ last = Outcome("init", 0, "", <<>>, <<>>)
  /\ procs = [p \in Workers |-> IdleProc]
  /\ base = [started |-> FALSE, ds |-> <<>>]

\* the wall clock advances between requests
Tick ==
  /\ clock < MaxClock
  /\ clock' = clock + 1
  /\ UNCHANGED <<users, donations, reimbursements, spent, last, procs, base>>

\* POST /api/users
ValidEmail(e) == e \in {"a@x.io", "A@x.io", "b@x.io", "B@x.io"}
ValidWallet(w) == w \in {"0xaa", "0xAA", "0xbb", "0xBB"}

RegisterUser(email, walletAddress) ==
  /\ IF email = "" \/ walletAddress = "" \/ ~ValidEmail(email)
        \/ ~ValidWallet(walletAddress)
     THEN /\ last' = [Outcome("register", 400, "", users, <<>>) EXCEPT
                        !.email = email, !.wallet = walletAddress]
          /\ UNCHANGED users
     ELSE /\ users' = createOrUpdateUser(users, email, walletAddress, clock)
          /\ last' = [Outcome("register", 200, "", users, <<>>) EXCEPT
                        !.email = email, !.wallet = walletAddress]
  /\ UNCHANGED <<donations, reimbursements, clock, spent, procs, base>>

\* mutant: only a negative amount is turned away
RecordDonation_AcceptsZero(walletAddress, amount, txHash, blockNumber) ==
  /\ IF walletAddress = "" \/ amount = "" \/ txHash = ""
     THEN /\ last' = [Outcome("donate", 400, amount, donations, <<>>) EXCEPT
                        !.wallet = walletAddress]
          /\ UNCHANGED <<donations, spent>>
     ELSE IF IsNaNStr(amount) \/ ParseFloat(amount) < 0
     THEN /\ last' = [Outcome("donate", 400, amount, donations, <<>>) EXCEPT
                        !.wallet = walletAddress]
          /\ UNCHANGED <<donations, spent>>
     ELSE IF getUserByWallet(users, walletAddress) = 0
     THEN /\ last' = [Outcome("donate", 404, amount, donations, <<>>) EXCEPT
                        !.wallet = walletAddress]
          /\ UNCHANGED <<donations, spent>>
     ELSE /\ Len(donations) < MaxDonations
          /\ donations' = createDonation(donations,
                            users[getUserByWallet(users, walletAddress)].email,
                            walletAddress, amount, txHash, blockNumber, clock)
          /\ spent' = Append(spent, 0)
          /\ last' = [Outcome("donate", 201, amount, donations, <<>>) EXCEPT
                        !.key = DonationId(txHash, blockNumber),
                        !.wallet = walletAddress]
  /\ UNCHANGED <<users, reimbursements, clock, procs, base>>

\* mutant: a wallet without a user is not turned away
RecordDonation_NoUserCheck(walletAddress, amount, txHash, blockNumber) ==
  /\ IF walletAddress = "" \/ amount = "" \/ txHash = ""
     THEN /\ last' = [Outcome("donate", 400, amount, donations, <<>>) EXCEPT
                        !.wallet = walletAddress]
          /\ UNCHANGED <<donations, spent>>
     ELSE IF IsNaNStr(amount) \/ ParseFloat(amount) <= 0
     THEN /\ last' = [Outcome("donate", 400, amount, donations, <<>>) EXCEPT
                        !.wallet = walletAddress]
          /\ UNCHANGED <<donations, spent>>
     ELSE /\ Len(donations) < MaxDonations
          /\ donations' = createDonation(donations,
                            IF getUserByWallet(users, walletAddress) = 0 THEN ""
                            ELSE users[getUserByWallet(users, walletAddress)].email,
                            walletAddress, amount, txHash, blockNumber, clock)
          /\ spent' = Append(spent, 0)
          /\ last' = [Outcome("donate", 201, amount, donations, <<>>) EXCEPT
                        !.key = DonationId(txHash, blockNumber),
                        !.wallet = walletAddress]
  /\ UNCHANGED <<users, reimbursements, clock, procs, base>>

\* POST /api/donations
RecordDonation(walletAddress, amount, txHash, blockNumber) ==
  /\ IF walletAddress = "" \/ amount = "" \/ txHash = ""
     THEN /\ last' = [Outcome("donate", 400, amount, donations, <<>>) EXCEPT
                        !.wallet = walletAddress]
          /\ UNCHANGED <<donations, spent>>
     ELSE IF IsNaNStr(amount) \/ ParseFloat(amount) <= 0
     THEN /\ last' = [Outcome("donate", 400, amount, donations, <<>>) EXCEPT
                        !.wallet = walletAddress]
          /\ UNCHANGED <<donations, spent>>
     ELSE IF getUserByWallet(users, walletAddress) = 0
     THEN /\ last' = [Outcome("donate", 404, amount, donations, <<>>) EXCEPT
                        !.wallet = walletAddress]
          /\ UNCHANGED <<donations, spent>>
     ELSE /\ Len(donations) < MaxDonations
          /\ donations' = createDonation(donations,
                            users[getUserByWallet(users, walletAddress)].email,
                            walletAddress, amount, txHash, blockNumber, clock)
          /\ spent' = Append(spent, 0)
          /\ last' = [Outcome("donate", 201, amount, donations, <<>>) EXCEPT
                        !.key = DonationId(txHash, blockNumber),
                        !.wallet = walletAddress]
  /\ UNCHANGED <<users, reimbursements, clock, procs, base>>

\* mutant: a reimbursement whose identifier is already recorded is answered
\* without recording or allocating again
ProcessFIFO_OncePerId(amount, txHash, blockNumber, invoiceData) ==
  /\ IF amount = "" \/ txHash = "" \/ invoiceData = ""
     THEN /\ last' = Outcome("process", 400, amount, donations, <<>>)
          /\ UNCHANGED <<donations, reimbursements, spent>>
     ELSE IF IsNaNStr(amount) \/ ParseFloat(amount) <= 0
     THEN /\ last' = Outcome("process", 400, amount, donations, <<>>)
          /\ UNCHANGED <<donations, reimbursements, spent>>
     ELSE IF \E i \in DOMAIN reimbursements :
               reimbursements[i].id = DonationId(txHash, blockNumber)
     THEN /\ last' = Outcome("process", 200, amount, donations, <<>>)
          /\ UNCHANGED <<donations, reimbursements, spent>>
     ELSE LET notifications == calculateFIFONotifications(donations, amount)
          IN /\ reimbursements' = createReimbursement(reimbursements, amount,
                                    txHash, blockNumber, invoiceData, clock)
             /\ donations' = processReimbursement(donations, amount)
             /\ spent' = [i \in 1..Len(spent) |->
                            spent[i] + SumSpentFor(notifications, i)]
             /\ last' = Outcome("process", 200, amount, donations, notifications)
  /\ UNCHANGED <<users, clock, procs, base>>

\* mutant: the notifications returned are computed again after the update
ProcessFIFO_ReturnsRecomputed(amount, txHash, blockNumber, invoiceData) ==
  /\ IF amount = "" \/ txHash = "" \/ invoiceData = ""
     THEN /\ last' = Outcome("process", 400, amount, donations, <<>>)
          /\ UNCHANGED <<donations, reimbursements, spent>>
     ELSE IF IsNaNStr(amount) \/ ParseFloat(amount) <= 0
     THEN /\ last' = Outcome("process", 400, amount, donations, <<>>)
          /\ UNCHANGED <<donations, reimbursements, spent>>
     ELSE LET notifications == calculateFIFONotifications(donations, amount)
              updated == processReimbursement(donations, amount)
          IN /\ reimbursements' = createReimbursement(reimbursements, amount,
                                    txHash, blockNumber, invoiceData, clock)
             /\ donations' = updated
             /\ spent' = [i \in 1..Len(spent) |->
                            spent[i] + SumSpentFor(notifications, i)]
             /\ last' = Outcome("process", 200, amount, donations,
                                calculateFIFONotifications(updated, amount))
  /\ UNCHANGED <<users, clock, procs, base>>

\* POST /api/fifo
ProcessFIFO(amount, txHash, blockNumber, invoiceData) ==
  /\ IF amount = "" \/ txHash = "" \/ invoiceData = ""
     THEN /\ last' = Outcome("process", 400, amount, donations, <<>>)
          /\ UNCHANGED <<donations, reimbursements, spent>>
     ELSE IF IsNaNStr(amount) \/ ParseFloat(amount) <= 0
     THEN /\ last' = Outcome("process", 400, amount, donations, <<>>)
          /\ UNCHANGED <<donations, reimbursements, spent>>
     ELSE LET notifications == calculateFIFONotifications(donations, amount)
          IN /\ reimbursements' = createReimbursement(reimbursements, amount,
                                    txHash, blockNumber, invoiceData, clock)
             /\ donations' = processReimbursement(donations, amount)
             /\ spent' = [i \in 1..Len(spent) |->
                            spent[i] + SumSpentFor(notifications, i)]
             /\ last' = Outcome("process", 200, amount, donations, notifications)
  /\ UNCHANGED <<users, clock, procs, base>>

\* mutant: the preview persists the allocation it computed
PreviewFIFO_Persists(amount) ==
  /\ IF amount = "" \/ IsNaNStr(amount) \/ ParseFloat(amount) <= 0
     THEN /\ last' = Outcome("preview", 400, amount, donations, <<>>)
          /\ UNCHANGED donations
     ELSE /\ last' = Outcome("preview", 200, amount, donations,
                             calculateFIFONotifications(donations, amount))
          /\ donations' = processReimbursement(donations, amount)
  /\ UNCHANGED <<users, reimbursements, clock, spent, procs, base>>

\* GET /api/fifo
PreviewFIFO(amount) ==
  /\ IF amount = "" \/ IsNaNStr(amount) \/ ParseFloat(amount) <= 0
     THEN last' = Outcome("preview", 400, amount, donations, <<>>)
     ELSE last' = Outcome("preview", 200, amount, donations,
                          calculateFIFONotifications(donations, amount))
  /\ UNCHANGED <<users, donations, reimbursements, clock, spent, procs, base>>

\* mutant: the comparator of the FIFO sort (oldest first)
CompareNewestFirst_OldestFirst(a, b) == a.timestamp - b.timestamp

\* GET /api/donations: the comparator b.timestamp - a.timestamp
CompareNewestFirst(a, b) == b.timestamp - a.timestamp

RECURSIVE InsertNewestFirst(_, _)
InsertNewestFirst(rows, d) ==
  IF rows = <<>> THEN <<d>>
  ELSE IF CompareNewestFirst(Head(rows), d) <= 0
       THEN <<Head(rows)>> \o InsertNewestFirst(Tail(rows), d)
       ELSE <<d>> \o rows

RECURSIVE SortNewestFirst(_)
SortNewestFirst(ds) ==
  IF ds = <<>> THEN <<>>
  ELSE InsertNewestFirst(SortNewestFirst(SubSeq(ds, 1, Len(ds) - 1)),
                         ds[Len(ds)])

getDonationsByEmail(ds, email) ==
  SelectSeq(ds, LAMBDA d : ToLowerCase(d.email) = ToLowerCase(email))

QueryDonations(email) ==
  /\ last' = [Outcome("query", 200, "", donations, <<>>) EXCEPT
                !.rows = SortNewestFirst(IF email # ""
                                         THEN getDonationsByEmail(donations, email)
                                         ELSE donations),
                !.email = email]
  /\ UNCHANGED <<users, donations, reimbursements, clock, spent, procs, base>>

Next ==
  \/ Tick
  \/ \E f \in QueryFilters : QueryDonations(f)
  \/ \E e \in LedgerEmails, w \in LedgerWallets : RegisterUser(e, w)
  \/ \E w \in DonationWallets, a \in DonationAmounts, t \in TxHashes,
        b \in BlockNumbers : RecordDonation(w, a, t, b)
  \/ \E a \in FifoAmounts, t \in FifoTxHashes, b \in BlockNumbers,
        i \in InvoiceTexts :
       Len(reimbursements) < MaxReimbursements /\ ProcessFIFO(a, t, b, i)
  \/ \E a \in PreviewAmounts : PreviewFIFO(a)

Spec == Init /\ [][Next]_vars

\* --------------------------------------------- registrations and wallets
\* Donors register and re-register under emails and wallets that differ in
\* case; donations arrive from registered and unregistered wallets, all
\* within one tick of the clock.
NextUsers ==
  \/ \E e \in UserEmails, w \in UserWallets : RegisterUser(e, w)
  \/ \E w \in UserDonationWallets, a \in UserDonationAmounts,
        t \in UserTxHashes, b \in BlockNumbers : RecordDonation(w, a, t, b)

SpecUsers == Init /\ [][NextUsers]_vars

\* ------------------------------------------------------- re-registration
\* Donors register again, later and with another wallet; donations arrive
\* from the wallets they hold or held.
NextReRegister ==
  \/ Tick
  \/ \E e \in ReRegisterEmails, w \in QueryWallets : RegisterUser(e, w)
  \/ \E w \in QueryWallets, a \in UserDonationAmounts, t \in UserTxHashes,
        b \in BlockNumbers : RecordDonation(w, a, t, b)

SpecReRegister == Init /\ [][NextReRegister]_vars

\* ------------------------------------------------------ request amounts
\* Donations and reimbursements arrive with missing, unparsable, zero,
\* negative and positive amounts.
NextInput ==
  \/ Tick
  \/ \E e \in LedgerEmails, w \in LedgerWallets : RegisterUser(e, w)
  \/ \E w \in DonationWallets, a \in InputDonationAmounts,
        t \in UserTxHashes, b \in BlockNumbers : RecordDonation(w, a, t, b)
  \/ \E a \in InputFifoAmounts, t \in FifoTxHashes, b \in BlockNumbers,
        i \in InvoiceTexts :
       Len(reimbursements) < MaxReimbursements /\ ProcessFIFO(a, t, b, i)

SpecInput == Init /\ [][NextInput]_vars

\* ------------------------------------------------- repeated submissions
\* The same reimbursement (txHash, blockNumber) is submitted again, once
\* more than the other environments submit reimbursements.
NextResubmit ==
  \/ Tick
  \/ \E e \in LedgerEmails, w \in LedgerWallets : RegisterUser(e, w)
  \/ \E w \in DonationWallets, a \in ResubmitDonationAmounts,
        t \in UserTxHashes, b \in BlockNumbers : RecordDonation(w, a, t, b)
  \/ \E a \in ResubmitFifoAmounts, t \in FifoTxHashes, b \in BlockNumbers,
        i \in InvoiceTexts :
       Len(reimbursements) <= MaxReimbursements /\ ProcessFIFO(a, t, b, i)

SpecResubmit == Init /\ [][NextResubmit]_vars

\* ------------------------------------------------------------ percentages
\* Donations of 2, 3 and 10 are drawn on by a reimbursement of 4, previewed
\* and processed.
NextPercent ==
  \/ Tick
  \/ \E e \in LedgerEmails, w \in LedgerWallets : RegisterUser(e, w)
  \/ \E w \in DonationWallets, a \in PercentDonationAmounts, t \in TxHashes,
        b \in BlockNumbers : RecordDonation(w, a, t, b)
  \/ \E a \in PercentFifoAmounts, t \in FifoTxHashes, b \in BlockNumbers,
        i \in InvoiceTexts :
       Len(reimbursements) < MaxReimbursements /\ ProcessFIFO(a, t, b, i)
  \/ \E a \in PercentFifoAmounts : PreviewFIFO(a)

SpecPercent == Init /\ [][NextPercent]_vars

\* ---------------------------------------------------------------- queries
\* Two donors donate at different times; the donations are listed without a
\* filter and by email.
NextQuery ==
  \/ Tick
  \/ \E e \in QueryEmails, w \in QueryWallets : RegisterUser(e, w)
  \/ \E w \in QueryWallets, a \in UserDonationAmounts, t \in UserTxHashes,
        b \in BlockNumbers : RecordDonation(w, a, t, b)
  \/ \E f \in AllFilters : QueryDonations(f)

SpecQuery == Init /\ [][NextQuery]_vars

\* ------------------------------------------------------- unreadable files
\* readCollection: the stored collection, or [] when the file cannot be read
\* or parsed (the catch branch returns [])
readCollection(stored, readable) == IF readable THEN stored ELSE <<>>

\* POST /api/donations while the users file (usersReadable) or the donations
\* file (donationsReadable) may fail to be read
RecordDonationReading(walletAddress, amount, txHash, blockNumber, usersReadable, donationsReadable) ==
  LET us == readCollection(users, usersReadable)
      ds == readCollection(donations, donationsReadable)
  IN /\ IF walletAddress = "" \/ amount = "" \/ txHash = ""
        THEN /\ last' = [Outcome("donate", 400, amount, donations, <<>>) EXCEPT
                           !.wallet = walletAddress]
             /\ UNCHANGED <<donations, spent>>
        ELSE IF IsNaNStr(amount) \/ ParseFloat(amount) <= 0
        THEN /\ last' = [Outcome("donate", 400, amount, donations, <<>>) EXCEPT
                           !.wallet = walletAddress]
             /\ UNCHANGED <<donations, spent>>
        ELSE IF getUserByWallet(us, walletAddress) = 0
        THEN /\ last' = [Outcome("donate", 404, amount, donations, <<>>) EXCEPT
                           !.wallet = walletAddress,
                           !.fault = IF usersReadable THEN "" ELSE "read"]
             /\ UNCHANGED <<donations, spent>>
        ELSE /\ Len(ds) < MaxDonations
             /\ donations' = createDonation(ds,
                               us[getUserByWallet(us, walletAddress)].email,
                               walletAddress, amount, txHash, blockNumber, clock)
             /\ spent' = Append(SubSeq(spent, 1, Len(ds)), 0)
             /\ last' = [Outcome("donate", 201, amount, donations, <<>>) EXCEPT
                           !.key = DonationId(txHash, blockNumber),
                           !.wallet = walletAddress,
                           !.fault = IF donationsReadable THEN "" ELSE "read"]
     /\ UNCHANGED <<users, reimbursements, clock, procs, base>>

NextUnreadable ==
  \/ Tick
  \/ \E e \in LedgerEmails, w \in LedgerWallets : RegisterUser(e, w)
  \/ \E w \in DonationWallets, a \in ConcDonationAmounts, t \in TxHashes,
        b \in BlockNumbers, ur \in BOOLEAN, dr \in BOOLEAN :
       RecordDonationReading(w, a, t, b, ur, dr)

SpecUnreadable == Init /\ [][NextUnreadable]_vars

\* ------------------------------------------------ concurrent invocations
\* Two processes run processReimbursement against the same files; every
\* readCollection and every writeCollection is one step.

\* the next pass of the update loop, or the return
NextPass(pr) ==
  IF pr.k < Len(pr.notifications)
  THEN [pr EXCEPT !.pc = "find", !.k = pr.k + 1, !.target = <<>>,
                  !.newRemaining = "", !.buf = <<>>, !.index = 0]
  ELSE [pr EXCEPT !.pc = "done", !.k = 0, !.target = <<>>,
                  !.newRemaining = "", !.buf = <<>>, !.index = 0]

\* processReimbursement, line 252: calculateFIFONotifications reads the
\* donations and computes the allocation
PCalc(p, amount) ==
  /\ procs[p].pc = "idle"
  /\ LET notifications == calculateFIFONotifications(donations, amount)
     IN procs' = [procs EXCEPT ![p] =
                    IF notifications = <<>>
                    THEN [IdleProc EXCEPT !.pc = "done", !.amount = amount]
                    ELSE [IdleProc EXCEPT !.pc = "find", !.amount = amount,
                                          !.notifications = notifications,
                                          !.k = 1]]
  /\ base' = IF base.started THEN base ELSE [started |-> TRUE, ds |-> donations]
  /\ UNCHANGED <<users, donations, reimbursements, clock, spent, last>>

\* processReimbursement, lines 256-260: read the donations, find the
\* notification's donation, compute newRemaining
PFind(p) ==
  /\ procs[p].pc = "find"
  /\ LET pr == procs[p]
         notification == pr.notifications[pr.k]
         i == FindDonation(donations, notification.donationId, 1)
     IN procs' = [procs EXCEPT ![p] =
                    IF i > 0
                    THEN [pr EXCEPT !.pc = "load", !.target = donations[i].id,
                            !.newRemaining =
                              NumToString(ParseFloat(donations[i].remaining)
                                          - ParseFloat(notification.amountSpent))]
                    ELSE NextPass(pr)]
  /\ UNCHANGED <<users, donations, reimbursements, clock, spent, last, base>>

\* updateDonationRemaining, lines 155-156: read the donations, find the index
PLoad(p) ==
  /\ procs[p].pc = "load"
  /\ LET pr == procs[p]
         index == FindDonation(donations, pr.target, 1)
     IN procs' = [procs EXCEPT ![p] =
                    IF index > 0
                    THEN [pr EXCEPT !.pc = "store", !.buf = donations,
                                    !.index = index]
                    ELSE NextPass(pr)]
  /\ UNCHANGED <<users, donations, reimbursements, clock, spent, last, base>>

\* mutant: the new remaining is written to every donation of the same donor
PStore_ByEmail(p) ==
  /\ procs[p].pc = "store"
  /\ LET pr == procs[p]
     IN /\ donations' = [i \in DOMAIN pr.buf |->
                           IF pr.buf[i].email = pr.buf[pr.index].email
                           THEN [pr.buf[i] EXCEPT !.remaining = pr.newRemaining]
                           ELSE pr.buf[i]]
        /\ procs' = [procs EXCEPT ![p] = NextPass(pr)]
  /\ UNCHANGED <<users, reimbursements, clock, spent, last, base>>

\* updateDonationRemaining, lines 159-160: write the whole collection back
PStore(p) ==
  /\ procs[p].pc = "store"
  /\ LET pr == procs[p]
     IN /\ donations' = [pr.buf EXCEPT ![pr.index].remaining = pr.newRemaining]
        /\ procs' = [procs EXCEPT ![p] = NextPass(pr)]
  /\ UNCHANGED <<users, reimbursements, clock, spent, last, base>>

\* the environment records each on-chain donation once, before the two
\* reimbursements arrive
NextConc ==
  \/ Tick
  \/ \E e \in LedgerEmails, w \in LedgerWallets :
       ~base.started /\ RegisterUser(e, w)
  \/ \E w \in DonationWallets, a \in ConcDonationAmounts, t \in TxHashes,
        b \in BlockNumbers :
       /\ ~base.started
       /\ FindDonation(donations, DonationId(t, b), 1) = 0
       /\ RecordDonation(w, a, t, b)
  \/ \E p \in Workers, a \in ConcAmounts : PCalc(p, a)
  \/ \E p \in Workers : PFind(p)
  \/ \E p \in Workers : PLoad(p)
  \/ \E p \in Workers : PStore(p)

SpecConc == Init /\ [][NextConc]_vars

\* -------------------------------------------- one POST /api/fifo in steps
\* One request runs step by step: the reimbursement is recorded, the
\* allocation is computed, and each entry is applied by its own read and
\* write; a write may fail and the process may stop at any step.

\* mutant: the reimbursement is not recorded before the allocation runs
FifoRecord_Deferred(p, amount, txHash, blockNumber, invoiceData) ==
  /\ procs[p].pc = "idle"
  /\ IF amount = "" \/ txHash = "" \/ invoiceData = ""
        \/ IsNaNStr(amount) \/ ParseFloat(amount) <= 0
     THEN /\ procs' = [procs EXCEPT ![p] =
                         [IdleProc EXCEPT !.pc = "rejected", !.amount = amount]]
          /\ UNCHANGED base
     ELSE /\ procs' = [procs EXCEPT ![p] =
                         [IdleProc EXCEPT !.pc = "calc", !.amount = amount]]
          /\ base' = [started |-> TRUE, ds |-> donations]
  /\ UNCHANGED <<users, donations, reimbursements, clock, spent, last>>

\* POST /api/fifo, lines 29-47: validation, then createReimbursement
FifoRecord(p, amount, txHash, blockNumber, invoiceData) ==
  /\ procs[p].pc = "idle"
  /\ IF amount = "" \/ txHash = "" \/ invoiceData = ""
        \/ IsNaNStr(amount) \/ ParseFloat(amount) <= 0
     THEN /\ procs' = [procs EXCEPT ![p] =
                         [IdleProc EXCEPT !.pc = "rejected", !.amount = amount]]
          /\ UNCHANGED <<reimbursements, base>>
     ELSE /\ reimbursements' = createReimbursement(reimbursements, amount,
                                 txHash, blockNumber, invoiceData, clock)
          /\ procs' = [procs EXCEPT ![p] =
                         [IdleProc EXCEPT !.pc = "calc", !.amount = amount]]
          /\ base' = [started |-> TRUE, ds |-> donations]
  /\ UNCHANGED <<users, donations, clock, spent, last>>

\* POST /api/fifo, line 50 and processReimbursement, line 252
FifoCalc(p) ==
  /\ procs[p].pc = "calc"
  /\ LET pr == procs[p]
         notifications == calculateFIFONotifications(donations, pr.amount)
     IN procs' = [procs EXCEPT ![p] =
                    IF notifications = <<>>
                    THEN [pr EXCEPT !.pc = "done"]
                    ELSE [pr EXCEPT !.pc = "find",
                                    !.notifications = notifications, !.k = 1]]
  /\ UNCHANGED <<users, donations, reimbursements, clock, spent, last, base>>

\* mutant: a failed write puts the donations back as they were
PStoreFails_RollsBack(p) ==
  /\ procs[p].pc = "store"
  /\ procs' = [procs EXCEPT ![p].pc = "failed"]
  /\ donations' = base.ds
  /\ UNCHANGED <<users, reimbursements, clock, spent, last, base>>

\* writeCollection throws (lines 75-78): nothing is written, the error leaves
\* updateDonationRemaining and processReimbursement and reaches the handler's
\* catch (500)
PStoreFails(p) ==
  /\ procs[p].pc = "store"
  /\ procs' = [procs EXCEPT ![p].pc = "failed"]
  /\ UNCHANGED <<users, donations, reimbursements, clock, spent, last, base>>

\* the process stops between two steps
Crash(p) ==
  /\ procs[p].pc \in {"calc", "find", "load", "store"}
  /\ procs' = [procs EXCEPT ![p].pc = "crashed"]
  /\ UNCHANGED <<users, donations, reimbursements, clock, spent, last, base>>

NextSteps ==
  \/ Tick
  \/ \E e \in LedgerEmails, w \in LedgerWallets :
       ~base.started /\ RegisterUser(e, w)
  \/ \E w \in DonationWallets, a \in ConcDonationAmounts, t \in TxHashes,
        b \in BlockNumbers :
       ~base.started /\ RecordDonation(w, a, t, b)
  \/ \E p \in StepWorkers, a \in FifoAmounts, t \in FifoTxHashes,
        b \in BlockNumbers, i \in InvoiceTexts : FifoRecord(p, a, t, b, i)
  \/ \E p \in StepWorkers : FifoCalc(p)
  \/ \E p \in StepWorkers : PFind(p)
  \/ \E p \in StepWorkers : PLoad(p)
  \/ \E p \in StepWorkers : PStore(p)
  \/ \E p \in StepWorkers : PStoreFails(p)
  \/ \E p \in StepWorkers : Crash(p)

SpecSteps == Init /\ [][NextSteps]_vars

\* ------------------------------------------------- concurrent recording
\* createDonation runs in steps, next to another createDonation or to a
\* processReimbursement: every readCollection and every writeCollection is
\* one step.

\* POST /api/donations up to createDonation, lines 135-148: validation, the
\* donor's lookup, the read of the donations and the push onto the copy
DonationLoad(p, walletAddress, amount, txHash, blockNumber) ==
  /\ procs[p].pc = "idle"
  /\ IF walletAddress = "" \/ amount = "" \/ txHash = ""
        \/ IsNaNStr(amount) \/ ParseFloat(amount) <= 0
        \/ getUserByWallet(users, walletAddress) = 0
     THEN procs' = [procs EXCEPT ![p] =
                     [IdleProc EXCEPT !.pc = "rejected", !.amount = amount]]
     ELSE /\ Len(donations) < MaxDonations
          /\ procs' = [procs EXCEPT ![p] =
                         [IdleProc EXCEPT
                            !.pc = "write", !.amount = amount,
                            !.target = DonationId(txHash, blockNumber),
                            !.buf = createDonation(donations,
                                      users[getUserByWallet(users,
                                                            walletAddress)].email,
                                      walletAddress, amount, txHash,
                                      blockNumber, clock)]]
  /\ base' = IF base.started THEN base ELSE [started |-> TRUE, ds |-> donations]
  /\ UNCHANGED <<users, donations, reimbursements, clock, spent, last>>

\* createDonation, line 149: write the whole collection back, then return
DonationStore(p) ==
  /\ procs[p].pc = "write"
  /\ donations' = procs[p].buf
  /\ procs' = [procs EXCEPT ![p].pc = "returned", ![p].buf = <<>>]
  /\ UNCHANGED <<users, reimbursements, clock, spent, last, base>>

\* the environment records each on-chain donation once; one process runs
\* processReimbursement or createDonation, the other createDonation
NextRecording ==
  \/ Tick
  \/ \E e \in LedgerEmails, w \in LedgerWallets :
       ~base.started /\ RegisterUser(e, w)
  \/ \E w \in DonationWallets, a \in ConcDonationAmounts, t \in TxHashes,
        b \in BlockNumbers :
       /\ ~base.started
       /\ FindDonation(donations, DonationId(t, b), 1) = 0
       /\ RecordDonation(w, a, t, b)
  \/ \E p \in Workers, w \in DonationWallets, a \in ConcDonationAmounts,
        t \in TxHashes, b \in BlockNumbers :
       /\ FindDonation(donations, DonationId(t, b), 1) = 0
       /\ \A q \in Workers : procs[q].target # DonationId(t, b)
       /\ DonationLoad(p, w, a, t, b)
  \/ \E p \in Workers : DonationStore(p)
  \/ \E p \in StepWorkers, a \in ConcAmounts : PCalc(p, a)
  \/ \E p \in StepWorkers : PFind(p)
  \/ \E p \in StepWorkers : PLoad(p)
  \/ \E p \in StepWorkers : PStore(p)

SpecRecording == Init /\ [][NextRecording]_vars

\* ================================================================ claims
Num(s) == ParseFloat(s)

RECURSIVE SumSpent(_)
SumSpent(notifications) ==
  IF notifications = <<>> THEN 0
  ELSE Num(Head(notifications).amountSpent) + SumSpent(Tail(notifications))

RECURSIVE SumRemaining(_)
SumRemaining(ds) ==
  IF ds = <<>> THEN 0 ELSE Num(Head(ds).remaining) + SumRemaining(Tail(ds))

RECURSIVE SumPositiveRemaining(_)
SumPositiveRemaining(ds) ==
  IF ds = <<>> THEN 0
  ELSE (IF Num(Head(ds).remaining) > 0 THEN Num(Head(ds).remaining) ELSE 0)
       + SumPositiveRemaining(Tail(ds))

Allocated == last.op \in {"process", "preview"} /\ last.status = 200
Processed == last.op = "process" /\ last.status = 200

\* C1: every stored Donation record satisfies 0 <= remaining <= amount, also
\* when the same (txHash, blockNumber) has been recorded more than once.
C1_RemainingWithinAmount ==
  \A i \in DOMAIN donations :
    /\ 0 <= Num(donations[i].remaining)
    /\ Num(donations[i].remaining) <= Num(donations[i].amount)

\* C2: each record's remaining equals its amount minus the sum of amountSpent
\* over all allocation entries emitted for that record by the
\* processReimbursement calls so far (a fresh donation has remaining = amount).
C2_Conservation ==
  \A i \in DOMAIN donations :
    Num(donations[i].remaining) = Num(donations[i].amount) - spent[i]

\* C3: recording a donation whose (txHash, blockNumber) is already stored
\* leaves exactly one record with that identifier, and the remaining of the
\* existing records and the total remaining are as before the call.
C3_IdempotentReingestion ==
  (/\ last.op = "donate"
   /\ last.status = 201
   /\ \E i \in DOMAIN last.pre : last.pre[i].id = last.key)
  => /\ Cardinality({i \in DOMAIN donations : donations[i].id = last.key}) = 1
     /\ \A i \in DOMAIN last.pre :
          donations[i].remaining = last.pre[i].remaining
     /\ SumRemaining(donations) = SumRemaining(last.pre)

C5_FIFOPrefix ==
  Allocated =>
    LET E == last.result
        P == last.pre
        n == Len(E)
        R == Num(last.amount)
    IN /\ \A k \in 1..n :
            /\ E[k].rec \in DOMAIN P
            /\ E[k].donationId = P[E[k].rec].id
            /\ E[k].email = P[E[k].rec].email
       /\ \A k \in 1..(n - 1) :
            /\ P[E[k].rec].timestamp <= P[E[k + 1].rec].timestamp
            /\ Num(E[k].amountSpent) = Num(P[E[k].rec].remaining)
       /\ \A k \in 1..n : \A j \in DOMAIN P :
            (Num(P[j].remaining) > 0 /\ P[j].timestamp < P[E[k].rec].timestamp)
            => \E m \in 1..n : /\ E[m].rec = j
                                /\ Num(E[m].amountSpent) = Num(P[j].remaining)
       /\ \A j \in DOMAIN P :
            (/\ Num(P[j].remaining) > R
             /\ \A i \in DOMAIN P \ {j} :
                  Num(P[i].remaining) > 0 =>
                    (P[j].timestamp < P[i].timestamp
                     \/ (P[j].timestamp = P[i].timestamp /\ j < i)))
            => (n = 1 /\ E[1].rec = j /\ Num(E[1].amountSpent) = R)
       /\ \A i, j \in DOMAIN P :
            (/\ {x \in DOMAIN P : Num(P[x].remaining) > 0} = {i, j}
             /\ Num(P[i].remaining) = 3
             /\ Num(P[j].remaining) = 5
             /\ P[i].timestamp < P[j].timestamp
             /\ R = 7)
            => (/\ n = 2
                /\ E[1].rec = i /\ E[1].amountSpent = "3"
                /\ E[2].rec = j /\ E[2].amountSpent = "4")

C5_Witness ==
  /\ Processed
  /\ last.amount = "7"
  /\ Len(last.result) = 2
  /\ last.result[1].amountSpent = "3"
  /\ last.result[2].amountSpent = "4"
  /\ last.pre[1].timestamp < last.pre[2].timestamp
  /\ last.pre[1].id # last.pre[2].id

\* C6: a processReimbursement whose amount exceeds the sum of all remaining
\* allocates every donation with positive remaining exactly its full remaining,
\* the total allocated is the pre-call sum of remaining, and afterwards every
\* stored donation has remaining = 0.
C6_Exhaustion ==
  (Processed /\ Num(last.amount) > SumRemaining(last.pre))
  => /\ \A j \in DOMAIN last.pre :
          Num(last.pre[j].remaining) > 0 =>
            /\ Cardinality({k \in DOMAIN last.result : last.result[k].rec = j}) = 1
            /\ \A k \in DOMAIN last.result :
                 last.result[k].rec = j =>
                   Num(last.result[k].amountSpent) = Num(last.pre[j].remaining)
     /\ SumSpent(last.result) = SumRemaining(last.pre)
     /\ \A i \in DOMAIN donations : Num(donations[i].remaining) = 0

\* C7: in the result of one calculateFIFONotifications call no donationId
\* occurs in more than one entry.
C7_DonationOncePerAllocation ==
  Allocated =>
    \A k, m \in DOMAIN last.result :
      k # m => last.result[k].donationId # last.result[m].donationId

\* the outcome of running processReimbursement(a1) and then
\* processReimbursement(a2), one after the other, on the donations B
SerialOutcome(B, a1, a2) ==
  LET n1 == calculateFIFONotifications(B, a1)
      B1 == ApplyNotifications(B, n1)
      n2 == calculateFIFONotifications(B1, a2)
  IN [ds |-> ApplyNotifications(B1, n2), first |-> n1, second |-> n2]

AllDone == \A p \in Workers : procs[p].pc = "done"

\* C8: two concurrent processReimbursement invocations end as some serial
\* order of the two would, so that the total they attribute does not exceed
\* the total remaining before them and no remaining becomes negative.
C8_WritesSerialized ==
  AllDone =>
    LET s12 == SerialOutcome(base.ds, procs[1].amount, procs[2].amount)
        s21 == SerialOutcome(base.ds, procs[2].amount, procs[1].amount)
    IN /\ \/ /\ donations = s12.ds
             /\ procs[1].notifications = s12.first
             /\ procs[2].notifications = s12.second
          \/ /\ donations = s21.ds
             /\ procs[2].notifications = s21.first
             /\ procs[1].notifications = s21.second
       /\ SumSpent(procs[1].notifications) + SumSpent(procs[2].notifications)
            <= SumPositiveRemaining(base.ds)
       /\ \A i \in DOMAIN donations : Num(donations[i].remaining) >= 0

\* C9: the remaining of a stored Donation record never increases: every
\* request leaves each record in place with remaining after <= remaining before.
C9_RemainingNeverIncreases ==
  [][\A i \in DOMAIN donations :
       /\ i \in DOMAIN donations'
       /\ donations'[i].id = donations[i].id
       /\ Num(donations'[i].remaining) <= Num(donations[i].remaining)]_vars

C9_Witness ==
  /\ Processed
  /\ \E i \in DOMAIN last.pre :
       Num(donations[i].remaining) < Num(last.pre[i].remaining)

\* C10: a preview (GET /api/fifo) leaves the users, donations and
\* reimbursements collections exactly as they were.
C10_PreviewNeverWrites ==
  [][last'.op = "preview" =>
       (users' = users /\ donations' = donations
        /\ reimbursements' = reimbursements)]_vars

C10_Witness ==
  /\ last.op = "preview"
  /\ last.status = 200
  /\ Len(last.result) > 0
  /\ donations = last.pre
\* C11: from the same donations and for the same amount, a preview followed
\* by processReimbursement returns the same entries in the same order.
C11_PreviewEqualsProcess ==
  [][(/\ last.op = "preview" /\ last.status = 200
      /\ last'.op = "process" /\ last'.status = 200
      /\ last'.amount = last.amount)
     => last'.result = last.result]_vars

C11_Witness ==
  /\ Processed
  /\ last.amount \in PreviewAmounts
  /\ Len(last.result) = 2
  /\ donations # last.pre
  /\ last.result = calculateFIFONotifications(last.pre, last.amount)
\* no stored user holds the wallet w, compared ignoring case
NoDonorHolds(us, w) ==
  \A k \in DOMAIN us : ToLowerCase(us[k].walletAddress) # ToLowerCase(w)

\* C12: recording a donation whose wallet matches no registered donor
\* (ignoring case) is rejected with an error and leaves the users, donations
\* and reimbursements collections unchanged.
C12_UnregisteredWalletRejected ==
  [][(last'.op = "donate" /\ NoDonorHolds(users, last'.wallet))
     => (/\ last'.status \in {400, 404}
         /\ users' = users /\ donations' = donations
         /\ reimbursements' = reimbursements)]_vars

C12_Witness ==
  /\ last.op = "donate"
  /\ last.status = 404
  /\ Len(users) >= 1
  /\ NoDonorHolds(users, last.wallet)
  /\ donations = last.pre

\* C15: no two stored Donor records have emails that are equal ignoring case.
C15_EmailsUnique ==
  \A i, j \in DOMAIN users :
    i # j => ToLowerCase(users[i].email) # ToLowerCase(users[j].email)

C15_Witness ==
  /\ last.op = "register"
  /\ last.status = 200
  /\ Len(users) = Len(last.pre)
  /\ \E k \in DOMAIN users :
       /\ users[k].email # last.pre[k].email
       /\ ToLowerCase(users[k].email) = ToLowerCase(last.pre[k].email)

\* C16: no two stored Donor records have wallet addresses that are equal
\* ignoring case (one wallet maps to one email).
C16_WalletsUnique ==
  \A i, j \in DOMAIN users :
    i # j => ToLowerCase(users[i].walletAddress)
             # ToLowerCase(users[j].walletAddress)

\* C17: a Donation record is created only while a Donor with its wallet
\* address (ignoring case) is registered, and it carries the email that Donor
\* has at that moment.
C17_DonationHasDonor ==
  [][Len(donations') > Len(donations) =>
       LET d == donations'[Len(donations')]
       IN \E k \in DOMAIN users :
            /\ ToLowerCase(users[k].walletAddress) = ToLowerCase(d.walletAddress)
            /\ d.email = users[k].email]_vars

C17_Witness ==
  /\ last.op = "donate"
  /\ last.status = 201
  /\ last.wallet = "0xAA"
  /\ Len(users) = 2
  /\ users[2].walletAddress = "0xaa"
  /\ users[1].walletAddress = "0xbb"
  /\ donations[Len(donations)].email = users[2].email
\* the strings that parse as a positive amount
GoodAmount(s) == \E n \in 1..MaxNum : s = NumToString(n)

C14_ReimbursementOncePerId ==
  [][/\ \A i \in DOMAIN reimbursements :
          /\ i \in DOMAIN reimbursements'
          /\ reimbursements'[i] = reimbursements[i]
     /\ \A i, j \in DOMAIN reimbursements' :
          i # j => reimbursements'[i].id # reimbursements'[j].id]_vars

C19_OneNotificationPerDonor ==
  Processed =>
    \A k, m \in DOMAIN last.result :
      k # m => ToLowerCase(last.result[k].email)
               # ToLowerCase(last.result[m].email)

\* C20: donations with identical timestamps are consumed in their order in
\* the stored collection.
C20_TiesInStoredOrder ==
  Allocated =>
    \A k, m \in DOMAIN last.result :
      (k < m /\ last.pre[last.result[k].rec].timestamp
                = last.pre[last.result[m].rec].timestamp)
      => last.result[k].rec < last.result[m].rec

C20_Witness ==
  /\ Allocated
  /\ Len(last.result) = 2
  /\ last.pre[last.result[1].rec].timestamp
     = last.pre[last.result[2].rec].timestamp
  /\ last.result[1].donationId # last.result[2].donationId
  /\ last.result[1].rec = 1

\* how many times the record d occurs in the list rows
Occurrences(rows, d) == Cardinality({k \in DOMAIN rows : rows[k] = d})

\* C22: a query returns the stored donations, all of them or exactly those
\* whose email equals the filter ignoring case, newest first by timestamp,
\* and leaves the stored collection as it was.
C22_QueryNewestFirst ==
  last.op = "query" =>
    LET rows == last.rows
        Matches(d) == last.email = ""
                      \/ ToLowerCase(d.email) = ToLowerCase(last.email)
    IN /\ donations = last.pre
       /\ \A k \in 1..(Len(rows) - 1) :
            rows[k].timestamp >= rows[k + 1].timestamp
       /\ \A k \in DOMAIN rows :
            /\ Matches(rows[k])
            /\ Occurrences(rows, rows[k]) = Occurrences(last.pre, rows[k])
       /\ \A i \in DOMAIN last.pre :
            Matches(last.pre[i]) =>
              Occurrences(rows, last.pre[i]) = Occurrences(last.pre, last.pre[i])

C22_Witness ==
  /\ last.op = "query"
  /\ last.email = ""
  /\ Len(last.rows) = 2
  /\ last.rows[1] = last.pre[2]
  /\ last.rows[1].timestamp > last.rows[2].timestamp

\* C23: when the store holds no donations, or every donation has
\* remaining <= 0, calculateFIFONotifications returns an empty list for any
\* positive amount and processReimbursement changes no donation record.
C23_NothingToAllocate ==
  (Allocated /\ \A i \in DOMAIN last.pre : Num(last.pre[i].remaining) <= 0)
  => /\ last.result = <<>>
     /\ donations = last.pre

C23_Witness ==
  /\ Processed
  /\ Len(last.pre) >= 1
  /\ \A i \in DOMAIN last.pre : Num(last.pre[i].remaining) <= 0
  /\ last.result = <<>>
  /\ donations = last.pre
  /\ Len(reimbursements) = 2

\* the percentage p = num/den in tenths of a percent, rounded half up
Tenths(p) == (20 * p.num + p.den) \div (2 * p.den)

\* C24: each entry's percentageSpent is amountSpent divided by the donation's
\* original amount (not its remaining) times 100, so it lies in (0, 100];
\* amount 10 with 4 drawn gives 40, and donations of 2 (older) and 3 with a
\* reimbursement of 4 give (2, 100%) and (2, two thirds = 66.7%).
C24_PercentageOfOriginal ==
  Allocated =>
    LET E == last.result
        P == last.pre
    IN /\ \A k \in DOMAIN E :
            LET p == E[k].percentageSpent
                original == Num(P[E[k].rec].amount)
            IN /\ E[k].originalAmount = P[E[k].rec].amount
               /\ p.den > 0
               /\ p.num * original = Num(E[k].amountSpent) * 100 * p.den
               /\ 0 < p.num
               /\ p.num <= 100 * p.den
               /\ (original = 10 /\ Num(E[k].amountSpent) = 4)
                    => (p.num = 40 * p.den /\ Tenths(p) = 400)
       /\ (/\ Len(P) = 2
           /\ P[1].remaining = "2" /\ P[1].amount = "2"
           /\ P[2].remaining = "3" /\ P[2].amount = "3"
           /\ P[1].timestamp < P[2].timestamp
           /\ Num(last.amount) = 4)
          => (/\ Len(E) = 2
              /\ E[1].amountSpent = "2" /\ Tenths(E[1].percentageSpent) = 1000
              /\ E[2].amountSpent = "2" /\ Tenths(E[2].percentageSpent) = 667
              /\ 3 * E[2].percentageSpent.num = 200 * E[2].percentageSpent.den)

C24_Witness ==
  /\ last.op = "preview"
  /\ last.status = 200
  /\ Len(last.result) = 1
  /\ last.pre[last.result[1].rec].amount = "10"
  /\ last.pre[last.result[1].rec].remaining = "6"
  /\ last.result[1].amountSpent = "4"
  /\ Tenths(last.result[1].percentageSpent) = 400

Recorded(p) ==
  /\ Len(reimbursements) = 1
  /\ reimbursements[1].amount = procs[p].amount

\* C26: within one POST /api/fifo the Reimbursement record is written before
\* the donations are read and before any remaining is decremented: a process
\* that has stopped after that write and before the first decrement leaves
\* the Reimbursement recorded and every donation as it was.
C26_RecordedBeforeAllocation ==
  \A p \in StepWorkers :
    /\ procs[p].pc \in {"calc", "find", "load", "store", "crashed", "failed",
                         "done"}
       => Recorded(p)
    /\ (procs[p].pc \in {"calc", "find", "load", "store", "crashed"}
        /\ procs[p].k <= 1)
       => donations = base.ds

C26_Witness ==
  /\ procs[1].pc = "crashed"
  /\ procs[1].k = 1
  /\ Len(procs[1].notifications) = 2
  /\ Recorded(1)
  /\ Len(donations) = 2
  /\ donations = base.ds

\* C27: processReimbursement writes one donation at a time and has no
\* rollback: when the write for entry k fails, the decrements of entries
\* 1..k-1 stay stored, entries k.. are not applied, the error reaches the
\* caller and the Reimbursement stays recorded.
C27_NoRollback ==
  \A p \in StepWorkers :
    procs[p].pc = "failed" =>
      /\ procs[p].k \in DOMAIN procs[p].notifications
      /\ donations = ApplyNotifications(base.ds,
                        SubSeq(procs[p].notifications, 1, procs[p].k - 1))
      /\ Recorded(p)

C27_Witness ==
  /\ procs[1].pc = "failed"
  /\ procs[1].k = 2
  /\ Len(procs[1].notifications) = 2
  /\ procs[1].notifications[1].donationId # procs[1].notifications[2].donationId
  /\ Num(donations[1].remaining) = 0
  /\ Num(base.ds[1].remaining) > 0
  /\ donations[2] = base.ds[2]
  /\ Recorded(1)

\* C29: processReimbursement changes nothing except the remaining of the
\* donations named in its allocation: users, reimbursements, the number and
\* order of the donation records, every other field of every donation and
\* the remaining of every donation not named are as before.
C29_ProcessFrame ==
  [][\A p \in StepWorkers :
       (procs[p].pc \in {"calc", "find", "load", "store"}
        /\ procs'[p] # procs[p])
       => /\ users' = users
          /\ reimbursements' = reimbursements
          /\ Len(donations') = Len(donations)
          /\ \A i \in DOMAIN donations :
               /\ [donations'[i] EXCEPT !.remaining = ""]
                  = [donations[i] EXCEPT !.remaining = ""]
               /\ donations'[i].remaining # donations[i].remaining
                  => \E k \in DOMAIN procs[p].notifications :
                       procs[p].notifications[k].donationId = donations[i].id]_vars

C29_Witness ==
  /\ procs[1].pc = "done"
  /\ Len(users) = 1
  /\ Len(procs[1].notifications) = 1
  /\ Len(donations) = 2
  /\ donations[1].id # donations[2].id
  /\ donations[1].remaining # base.ds[1].remaining
  /\ donations[2] = base.ds[2]
  /\ Num(donations[2].remaining) > 0

\* no process is in the middle of an operation
Quiet == \A p \in Workers : procs[p].pc \in {"idle", "rejected", "returned", "done"}

\* C28: no recorded donation is lost under concurrency: once a createDonation
\* that ran next to a processReimbursement or another createDonation has
\* returned, its donation is in the collection, and every decrement
\* processReimbursement applied is still reflected in it.
C28_NoDonationLost ==
  (base.started /\ Quiet) =>
    \A p \in Workers :
      /\ procs[p].pc = "returned"
         => \E i \in DOMAIN donations : donations[i].id = procs[p].target
      /\ procs[p].pc = "done"
         => \A i \in DOMAIN base.ds :
              /\ i \in DOMAIN donations
              /\ donations[i]
                 = ApplyNotifications(base.ds, procs[p].notifications)[i]

\* C30: re-registering a stored email (matched ignoring case) with a
\* different wallet overwrites that Donor record in place: the number of
\* records is unchanged, createdAt keeps its value, the new wallet resolves to
\* the donor, and the old wallet resolves to no donor unless another Donor
\* holds it.
C30_ReRegistrationOverwrites ==
  (last.op = "register" /\ last.status = 200) =>
    \A k \in DOMAIN last.pre :
      (/\ ToLowerCase(last.pre[k].email) = ToLowerCase(last.email)
       /\ ToLowerCase(last.pre[k].walletAddress) # ToLowerCase(last.wallet))
      => /\ Len(users) = Len(last.pre)
         /\ users[k] = [email |-> last.email, walletAddress |-> last.wallet,
                        createdAt |-> last.pre[k].createdAt]
         /\ \A j \in DOMAIN last.pre : j # k => users[j] = last.pre[j]
         /\ getUserByWallet(users, last.wallet) = k
         /\ (\A j \in DOMAIN users :
               ToLowerCase(users[j].walletAddress)
               # ToLowerCase(last.pre[k].walletAddress))
            => getUserByWallet(users, last.pre[k].walletAddress) = 0

\* C21: a failure to read a collection file is surfaced to the caller as a
\* storage error; it is never treated as an empty collection, and the write
\* that follows never replaces the stored records.
C21_ReadFailureSurfaced ==
  last.fault = "read" => (last.status = 500 /\ donations = last.pre)
====
